---------------------------- MODULE Spec2Model ----------------------------
(***************************************************************************)
(* Raw-transaction RPC layer of the copernicus node:                       *)
(*   - AccessByTxid     (logic/utxo): bounded probe of the coin view       *)
(*   - GetTransaction   (rpc/rawtransaction.go): transaction locator       *)
(*   - ScriptToAsmStr   (rpc/rawtransaction.go): script disassembler       *)
(*   - handleCreateRawTransaction, handleSendRawTransaction,               *)
(*     handleGetRawTransaction                                             *)
(* Each component has its own specification (SpecAccess, SpecLocate, ...)  *)
(* over the shared variables; the variables of the other components keep   *)
(* their idle values.                                                      *)
(***************************************************************************)
EXTENDS Integers, Sequences, FiniteSets, TLC

VARIABLES
    view,       \* coin view: OutPoint -> Coin (utxo.GetUtxoCacheInstance())
    acc,        \* one AccessByTxid call: [pc, hash, view0, result]
    pool,       \* pending pool (mempool.Gpool): the set of pooled transactions
    chain,      \* active chain (chain.GlobalChain): block index entries by height
    undo,       \* per block of the chain, the coins it spent (to disconnect it)
    GTxIndex,   \* chain.GTxIndex: the persistent transaction index is enabled
    loc,        \* one GetTransaction call: its inputs, locals and result
    hist,       \* what the GetTransaction call saw at each lookup (history)
    cr,         \* one createrawtransaction call: request, locals and result
    snd,        \* one sendrawtransaction call: request, reply and calls made
    asm         \* one ScriptToAsmStr call: script, flag and the string built

(***************************************************************************)
(* Bounds of the model.                                                    *)
(***************************************************************************)
MaxHeight == 2          \* block heights 1..MaxHeight
MaxInputs == 2          \* inputs of a createrawtransaction request
UintBits  == 4          \* model width of the uint32 sequence and lock time
MaxOuts   == 3          \* outputs of a submitted transaction
MaxScriptLen == 6       \* bytes of a script given to the disassembler

\* The ceiling of the output-index probe (part_000 line 11).
Ceiling == 11000

\* Transaction hashes: a small transaction (1) and a large one (2).
Hashes  == {1, 2}
Heights == 1..MaxHeight

\* Output indices at which the model places coins: the first ones, the last
\* one the probe reaches, and the first one beyond it.
CoinIdx == {0, 2, Ceiling - 1, Ceiling}

(***************************************************************************)
(* Coin and OutPoint                                                       *)
(***************************************************************************)
OutPoint(hash, index) == [Hash |-> hash, Index |-> index]

OutPoints == {OutPoint(h, i) : h \in Hashes, i \in CoinIdx}

\* A *utxo.Coin: the nil pointer, or a coin object whose output is null
\* (spent) or which records the height of its confirming block.
NilCoin == [nil |-> TRUE, spent |-> TRUE, height |-> 0, value |-> 0]

Coin(spent, height, value) ==
    [nil |-> FALSE, spent |-> spent, height |-> height, value |-> value]

\* coin.IsSpent(); an absent coin counts as spent.
IsSpent(coin) == coin.nil \/ coin.spent

\* coin.GetHeight()
GetHeight(coin) == coin.height

\* coinsCache.GetCoin(&out): a point lookup; nil when the view has no entry.
GetCoin(coinsCache, out) ==
    IF out \in DOMAIN coinsCache THEN coinsCache[out] ELSE NilCoin

(***************************************************************************)
(* AccessByTxid (part_000 lines 9-19).  ProbeRange(c, h, lo, hi) is the    *)
(* loop                                                                    *)
(*     for int(out.Index) < hi { alternate := GetCoin(&out)                *)
(*         if !alternate.IsSpent() { return alternate }; out.Index++ }     *)
(*     return nil                                                          *)
(* started with out.Index = lo: the indices lo, lo+1, ..., hi-1 are probed *)
(* in this order and the first coin that is not spent is returned.  The    *)
(* iterations lo..hi-1 are the iterations lo..mid-1 followed, when they    *)
(* return nothing, by the iterations mid..hi-1, which is how the range is  *)
(* evaluated here (11000 nested evaluations are beyond the checker).  A    *)
(* range in which the view has no entry for the hash returns nothing:      *)
(* every GetCoin of it returns nil.                                        *)
(***************************************************************************)
RECURSIVE ProbeRange(_, _, _, _)
ProbeRange(coinsCache, hash, lo, hi) ==
    IF hi <= lo THEN NilCoin
    ELSE IF \A o \in DOMAIN coinsCache :
               o.Hash # hash \/ o.Index < lo \/ o.Index >= hi
    THEN NilCoin
    ELSE IF hi = lo + 1
    THEN LET alternate == GetCoin(coinsCache, OutPoint(hash, lo))
         IN  IF ~IsSpent(alternate) THEN alternate ELSE NilCoin
    ELSE LET mid   == (lo + hi) \div 2
             first == ProbeRange(coinsCache, hash, lo, mid)
         IN  IF ~IsSpent(first) THEN first
             ELSE ProbeRange(coinsCache, hash, mid, hi)

\* Mutant: the loop bound taken inclusive (<= 11000).
AccessByTxidInclusive(coinsCache, hash) ==
    ProbeRange(coinsCache, hash, 0, Ceiling + 1)

AccessByTxid(coinsCache, hash) ==
    ProbeRange(coinsCache, hash, 0, Ceiling)

(***************************************************************************)
(* Variable groups and the idle values of the components.                  *)
(***************************************************************************)
envVars == <<pool, chain, undo, GTxIndex>>
locVars == <<loc, hist>>
rpcVars == <<cr, snd, asm>>
vars    == <<view, acc, pool, chain, undo, GTxIndex, loc, hist, cr, snd, asm>>

Min(S) == CHOOSE m \in S : \A x \in S : m <= x

\* A nil *tx.Tx, *blockindex.BlockIndex or *util.Hash.
NilTx    == [nil |-> TRUE, hash |-> 0]
NilIndex == [nil |-> TRUE, height |-> 0, txs |-> {}]
NilHash  == [nil |-> TRUE, of |-> NilIndex]

EnvIdle == pool = {} /\ chain = << >> /\ undo = << >> /\ GTxIndex = FALSE

LocIdle  == [pc |-> "idle"]
HistIdle == [consulted |-> {}]
CrIdle   == [pc |-> "idle"]
SndIdle  == [pc |-> "idle"]
AsmIdle  == [pc |-> "idle"]

(***************************************************************************)
(* Specification SpecAccess: AccessByTxid applied to a fixed coin view.    *)
(***************************************************************************)
\* The value a coin at output index i carries: coins of different outputs
\* are different coins.
ValueAt(i) == IF i = 0 THEN 1 ELSE IF i = 2 THEN 2
              ELSE IF i = Ceiling - 1 THEN 3 ELSE 4

\* What a coin-view entry for output index i may be.
CoinStates(i) ==
    {NilCoin, Coin(TRUE, 0, ValueAt(i))}
        \cup {Coin(FALSE, h, ValueAt(i)) : h \in Heights}

AccIdle == [pc |-> "idle", hash |-> 0, view0 |-> << >>, result |-> NilCoin]

InitAccess ==
    /\ \E h \in Hashes :
         \E c0 \in CoinStates(0), c2 \in CoinStates(2),
            cl \in CoinStates(Ceiling - 1), cb \in CoinStates(Ceiling) :
           /\ view = [o \in OutPoints |->
                        IF o.Hash = h
                        THEN CASE o.Index = 0 -> c0
                               [] o.Index = 2 -> c2
                               [] o.Index = Ceiling - 1 -> cl
                               [] OTHER -> cb
                        ELSE IF o.Index = 0
                             THEN Coin(FALSE, 1, ValueAt(0)) ELSE NilCoin]
           /\ acc = [pc |-> "call", hash |-> h, view0 |-> view,
                     result |-> NilCoin]
    /\ EnvIdle
    /\ loc = LocIdle /\ hist = HistIdle
    /\ cr = CrIdle /\ snd = SndIdle /\ asm = AsmIdle

AccessCall ==
    /\ acc.pc = "call"
    /\ acc' = [acc EXCEPT !.pc = "done",
                          !.result = AccessByTxid(view, acc.hash)]
    /\ UNCHANGED <<view, envVars, locVars, rpcVars>>

SpecAccess == InitAccess /\ [][AccessCall]_vars

(***************************************************************************)
(* Transactions, blocks and the collaborators GetTransaction consults.     *)
(***************************************************************************)
\* A transaction, identified by its hash.
Tx(h) == [nil |-> FALSE, hash |-> h]

\* tx.TxHash()
TxHash(tx) == tx.hash

\* The spendable outputs of transaction h (an unspendable output never
\* enters the coin view): odd hashes are small transactions, even hashes
\* are transactions whose spendable outputs are the last one the probe
\* reaches and the first one beyond it.
OutIdxOf(h) == IF h % 2 = 1 THEN {0, 2} ELSE {Ceiling - 1, Ceiling}

\* A block of the active chain with its index entry: its height and its
\* transactions.
Block(height, txs) == [nil |-> FALSE, height |-> height, txs |-> txs]

\* indexSlow.BlockHash: the hash identifies the block.
BlockHash(index) == [nil |-> FALSE, of |-> index]

\* The hashes of the transactions confirmed on the active chain.
ChainTxs(c) == {TxHash(t) : t \in UNION {c[i].txs : i \in 1..Len(c)}}

\* mempool.Gpool.FindTx(hash): the pool entry of the hash, or nil.
FindTx(p, hash) ==
    IF \E t \in p : TxHash(t) = hash
    THEN [nil |-> FALSE, Tx |-> CHOOSE t \in p : TxHash(t) = hash]
    ELSE [nil |-> TRUE, Tx |-> NilTx]

\* chain.GBlockTree.ReadTxIndex(hash): the block the index resolves the
\* hash to, or nil.
ReadTxIndex(c, hash) ==
    IF \E i \in 1..Len(c) : Tx(hash) \in c[i].txs
    THEN c[CHOOSE i \in 1..Len(c) : Tx(hash) \in c[i].txs]
    ELSE NilIndex

\* chain.GlobalChain.GetIndex(height): the active chain's entry at height.
GetIndex(c, height) ==
    IF height >= 1 /\ height <= Len(c) THEN c[height] ELSE NilIndex

(***************************************************************************)
(* The chain-advance process and the pool, running beside the RPC call.    *)
(***************************************************************************)
UnspentIn(v) == {o \in DOMAIN v : ~IsSpent(v[o])}

\* A transaction is accepted into the pending pool.
AcceptToPool ==
    /\ \E h \in Hashes \ (ChainTxs(chain) \cup {TxHash(t) : t \in pool}) :
         pool' = pool \cup {Tx(h)}
    /\ UNCHANGED <<view, chain, undo, GTxIndex>>

\* A pooled transaction is evicted.
EvictFromPool ==
    /\ \E t \in pool : pool' = pool \ {t}
    /\ UNCHANGED <<view, chain, undo, GTxIndex>>

\* A block is connected: its transactions leave the pool, their outputs
\* become coins at the new height, and the coins it spends (outputs of one
\* earlier transaction) are cleared.
ConnectBlock ==
    /\ Len(chain) < MaxHeight
    /\ \E T \in SUBSET (Hashes \ ChainTxs(chain)) :
       \E S \in {R \in SUBSET UnspentIn(view) :
                   \A o1, o2 \in R : o1.Hash = o2.Hash} :
         LET height == Len(chain) + 1
             b == Block(height, {Tx(h) : h \in T})
         IN  /\ chain' = Append(chain, b)
             /\ undo' = Append(undo, {<<o, view[o]>> : o \in S})
             /\ pool' = pool \ {Tx(h) : h \in T}
             /\ view' = [o \in DOMAIN view |->
                           IF o.Hash \in T /\ o.Index \in OutIdxOf(o.Hash)
                           THEN Coin(FALSE, height, ValueAt(o.Index))
                           ELSE IF o \in S
                           THEN Coin(TRUE, 0, view[o].value)
                           ELSE view[o]]
    /\ UNCHANGED GTxIndex

\* Reorganization: the tip is disconnected; its coins go, the coins it
\* spent come back, its transactions return to the pool.
DisconnectTip ==
    /\ Len(chain) > 0
    /\ LET b == chain[Len(chain)]
           spent == undo[Len(undo)]
       IN  /\ chain' = SubSeq(chain, 1, Len(chain) - 1)
           /\ undo' = SubSeq(undo, 1, Len(undo) - 1)
           /\ pool' = pool \cup b.txs
           /\ view' = [o \in DOMAIN view |->
                         IF Tx(o.Hash) \in b.txs THEN NilCoin
                         ELSE IF \E e \in spent : e[1] = o
                         THEN (CHOOSE e \in spent : e[1] = o)[2]
                         ELSE view[o]]
    /\ UNCHANGED GTxIndex

EnvStep == AcceptToPool \/ EvictFromPool \/ ConnectBlock \/ DisconnectTip

(***************************************************************************)
(* GetTransaction (rawtransaction.go lines 208-241), one step per lookup   *)
(* of a collaborator, and handleGetRawTransaction's reply (lines 41-79).   *)
(***************************************************************************)
Result(kind, tx, hashBlock) ==
    [kind |-> kind, tx |-> tx, hashBlock |-> hashBlock]

NoReply == [kind |-> "none", code |-> "", message |-> ""]

Consult(who) == [hist EXCEPT !.consulted = @ \cup {who}]

\* Mutant: a pool hit does not return.
LocPoolLookupNoReturn ==
    /\ loc.pc = "pool"
    /\ loc' = [loc EXCEPT !.pc = "txindex"]
    /\ hist' = [Consult("pool") EXCEPT
                    !.pooled = {t \in pool : TxHash(t) = loc.hash}]
    /\ UNCHANGED <<view, acc, envVars>>

\* Lines 209-212: entry := mempool.Gpool.FindTx(*hash).
LocPoolLookup ==
    /\ loc.pc = "pool"
    /\ LET entry == FindTx(pool, loc.hash)
       IN  IF ~entry.nil
           THEN loc' = [loc EXCEPT !.pc = "return",
                           !.result = Result("found", entry.Tx, NilHash)]
           ELSE loc' = [loc EXCEPT !.pc = "txindex"]
    /\ hist' = [Consult("pool") EXCEPT
                    !.pooled = {t \in pool : TxHash(t) = loc.hash}]
    /\ UNCHANGED <<view, acc, envVars>>

\* Lines 214-218: the index is read and what it returns is dropped.
LocIndexLookup ==
    /\ loc.pc = "txindex"
    /\ IF GTxIndex
       THEN hist' = [Consult("txindex") EXCEPT
                        !.indexHit = ReadTxIndex(chain, loc.hash)]
       ELSE hist' = hist
    /\ loc' = [loc EXCEPT !.pc = "slow"]
    /\ UNCHANGED <<view, acc, envVars>>

\* What the probe has seen so far of the outputs of the hash: whether one
\* below the ceiling, and one at or beyond it, was unspent in the view at
\* one of its lookups.
Observe(h) ==
    [h EXCEPT !.consulted = @ \cup {"coinview"},
              !.below = @ \/ \E o \in UnspentIn(view) :
                                o.Hash = loc.hash /\ o.Index < Ceiling,
              !.beyond = @ \/ \E o \in UnspentIn(view) :
                                 o.Hash = loc.hash /\ o.Index >= Ceiling]

\* Lines 221-223: with allowSlow the call enters AccessByTxid, whose out
\* starts with Index 0 (part_000 line 10).
LocSlowProbe ==
    /\ loc.pc = "slow"
    /\ loc' = [loc EXCEPT !.pc = IF loc.allowSlow THEN "probe" ELSE "read",
                  !.index = 0]
    /\ hist' = hist
    /\ UNCHANGED <<view, acc, envVars>>

\* The next output index, from i on and below the ceiling, that the view
\* has an entry for (an entry may be nil); the last index below the ceiling
\* when there is none.
ProbeStop(i) ==
    LET entries == {o.Index : o \in {e \in DOMAIN view :
                        e.Hash = loc.hash /\ e.Index >= i /\ e.Index < Ceiling}}
    IN  IF entries = {} THEN Ceiling - 1 ELSE Min(entries)

\* part_000 lines 11-18 and line 224: the lookups of AccessByTxid are
\* separate GetCoin calls, and the chain may advance between two of them.
\* One step makes the lookups from out.Index up to the next index the view
\* has an entry for; the lookups before that one return nil whenever they
\* are made.  The probe returns the coin of the first lookup that is not
\* spent, and nil when out.Index reaches the ceiling; GetTransaction then
\* tests coin.IsSpent().
LocProbe ==
    /\ loc.pc = "probe"
    /\ LET stop      == ProbeStop(loc.index)
           alternate == ProbeRange(view, loc.hash, loc.index, stop + 1)
       IN  IF ~IsSpent(alternate)
           THEN loc' = [loc EXCEPT !.coin = alternate, !.pc = "getindex"]
           ELSE IF stop + 1 < Ceiling
           THEN loc' = [loc EXCEPT !.index = stop + 1]
           ELSE loc' = [loc EXCEPT !.index = stop + 1, !.coin = NilCoin,
                           !.pc = "read"]
    /\ hist' = Observe(hist)
    /\ UNCHANGED <<view, acc, envVars>>

\* Line 225: indexSlow = chain.GlobalChain.GetIndex(int(coin.GetHeight())).
LocGetIndex ==
    /\ loc.pc = "getindex"
    /\ loc' = [loc EXCEPT !.pc = "read",
                  !.indexSlow = GetIndex(chain, GetHeight(loc.coin))]
    /\ hist' = Consult("chainindex")
    /\ UNCHANGED <<view, acc, envVars>>

\* Mutant: the read is attempted without the indexSlow != nil guard.
LocReadBlockNoNilGuard ==
    /\ loc.pc = "read"
    /\ IF ~loc.indexSlow.nil
       THEN \E ok \in BOOLEAN :
              /\ hist' = [Consult("blockstore") EXCEPT !.readOk = ok]
              /\ loc' = [loc EXCEPT !.pc = "return",
                            !.result = IF ok
                                       THEN Result("panic", NilTx, NilHash)
                                       ELSE Result("notfound", NilTx, NilHash)]
       ELSE /\ hist' = Consult("blockstore")
            /\ loc' = [loc EXCEPT !.pc = "return",
                          !.result = Result("panic", NilTx, NilHash)]
    /\ UNCHANGED <<view, acc, envVars>>

\* Lines 229-240.  bk is declared nil and passed by value, so it is still
\* nil after ReadBlockFromDisk: when the read reports success, ranging over
\* bk.Txs dereferences nil and the call panics; when it reports failure (a
\* disk error), or indexSlow is nil, line 240 returns not-found.
LocReadBlock ==
    /\ loc.pc = "read"
    /\ IF ~loc.indexSlow.nil
       THEN \E ok \in BOOLEAN :
              /\ hist' = [Consult("blockstore") EXCEPT !.readOk = ok]
              /\ loc' = [loc EXCEPT !.pc = "return",
                            !.result = IF ok
                                       THEN Result("panic", NilTx, NilHash)
                                       ELSE Result("notfound", NilTx, NilHash)]
       ELSE /\ hist' = hist
            /\ loc' = [loc EXCEPT !.pc = "return",
                          !.result = Result("notfound", NilTx, NilHash)]
    /\ UNCHANGED <<view, acc, envVars>>

\* handleGetRawTransaction lines 55-79, which calls GetTransaction(txHash,
\* true): the reply built from the result.  A found result is serialized
\* (lines 65-69), which may fail; with verbose the reply is built by
\* createTxRawResult, which calls hashBlock.IsNull() (line 97) on the
\* block hash: on the nil hash of a pool hit the call either treats nil as
\* null or dereferences it.  The reply of rpcDecodeHexError is its code;
\* its message text is built outside this file and is left empty.
ReplyError(code, message) ==
    [kind |-> "error", code |-> code, message |-> message]

LocReply ==
    /\ loc.pc = "return"
    /\ loc.allowSlow
    /\ \E verbose \in BOOLEAN, serialized \in BOOLEAN, nilIsNull \in BOOLEAN :
       loc' = [loc EXCEPT !.pc = "done",
                  !.reply =
                     CASE loc.result.kind = "panic" ->
                            [kind |-> "panic", code |-> "", message |-> ""]
                       [] loc.result.kind = "notfound" ->
                            IF GTxIndex
                            THEN ReplyError("ErrRPCInvalidAddressOrKey",
                                   "No such mempool or blockchain transaction")
                            ELSE ReplyError("ErrRPCInvalidAddressOrKey",
                                   "No such mempool transaction. Use -txindex to enable blockchain transaction queries. Use gettransaction for wallet transactions.")
                       [] OTHER ->
                            IF ~serialized
                            THEN ReplyError("ErrRPCDecodeHexString", "")
                            ELSE IF ~verbose
                            THEN [kind |-> "hex", code |-> "", message |-> ""]
                            ELSE IF loc.result.hashBlock.nil /\ ~nilIsNull
                            THEN [kind |-> "panic", code |-> "",
                                  message |-> ""]
                            ELSE [kind |-> "rawresult", code |-> "",
                                  message |-> ""]]
    /\ UNCHANGED <<view, acc, envVars, hist>>

\* GetTransaction has returned (or panicked).
LocReturned == loc.pc \in {"return", "done"}

InitLocate ==
    /\ view = [o \in OutPoints |-> NilCoin]
    /\ acc = AccIdle
    /\ pool = {} /\ chain = << >> /\ undo = << >>
    /\ GTxIndex \in BOOLEAN
    /\ \E h \in Hashes, slow \in BOOLEAN :
         /\ loc = [pc |-> "pool",
                   hash |-> h, allowSlow |-> slow, index |-> 0,
                   coin |-> NilCoin,
                   indexSlow |-> NilIndex,
                   result |-> Result("none", NilTx, NilHash),
                   reply |-> NoReply]
    /\ hist = [consulted |-> {}, pooled |-> {}, indexHit |-> NilIndex,
               below |-> FALSE, beyond |-> FALSE, readOk |-> FALSE]
    /\ cr = CrIdle /\ snd = SndIdle /\ asm = AsmIdle

NextLocate ==
    /\ \/ LocPoolLookup \/ LocIndexLookup \/ LocSlowProbe \/ LocProbe
       \/ LocGetIndex \/ LocReadBlock \/ LocReply
       \/ (~LocReturned /\ EnvStep /\ UNCHANGED <<acc, locVars>>)
    /\ UNCHANGED rpcVars

SpecLocate == InitLocate /\ [][NextLocate]_vars

(***************************************************************************)
(* Properties of AccessByTxid (under SpecAccess).                          *)
(***************************************************************************)
\* The output indices below the ceiling whose coin is unspent in the view
\* the call was given.
UnspentBelowCeiling ==
    {i \in 0..(Ceiling - 1) :
        ~IsSpent(GetCoin(acc.view0, OutPoint(acc.hash, i)))}

\* C2: AccessByTxid returns the coin of the lowest output index below the
\* ceiling (11000) that is unspent; when no index below the ceiling is
\* unspent it returns nil, whatever lies at or beyond the ceiling; it never
\* returns a spent coin and leaves the coin view as it was.
C2_LowestUnspentBelowCeiling ==
    acc.pc = "done" =>
        /\ UnspentBelowCeiling # {} =>
              acc.result = GetCoin(acc.view0,
                                   OutPoint(acc.hash, Min(UnspentBelowCeiling)))
        /\ UnspentBelowCeiling = {} => acc.result = NilCoin
        /\ acc.result.nil \/ ~acc.result.spent
        /\ view = acc.view0

\* C2 witness: nothing below the ceiling is unspent, an output at the
\* ceiling is, and the call has reported not-found.
C2_Witness ==
    /\ acc.pc = "done"
    /\ acc.result = NilCoin
    /\ UnspentBelowCeiling = {}
    /\ ~IsSpent(GetCoin(view, OutPoint(acc.hash, Ceiling)))

(***************************************************************************)
(* Properties of GetTransaction (under SpecLocate).                        *)
(***************************************************************************)
\* C1: pool precedence.  When the pending pool held the hash at the moment
\* GetTransaction queried it, the call returns found with the pooled
\* transaction and no block hash, and has consulted nothing but the pool.
C1_PoolPrecedence ==
    (LocReturned /\ hist.pooled # {}) =>
        /\ loc.result.kind = "found"
        /\ loc.result.tx \in hist.pooled
        /\ TxHash(loc.result.tx) = loc.hash
        /\ loc.result.hashBlock = NilHash
        /\ hist.consulted = {"pool"}

\* C1 witness: a pool hit with the index enabled, the slow path allowed,
\* a non-empty chain and unspent coins in the view.
C1_Witness ==
    /\ LocReturned /\ hist.pooled # {}
    /\ GTxIndex /\ loc.allowSlow
    /\ Len(chain) > 0 /\ UnspentIn(view) # {}

\* C3 (as claimed): hash not pooled, index disabled, slow path allowed, the
\* probe found an unspent coin, the active chain's block at the coin's
\* height contains the hash and was read: the call returns that transaction
\* with that block's hash.
C3_SlowPathSuccess ==
    ( /\ LocReturned /\ hist.pooled = {} /\ ~GTxIndex /\ loc.allowSlow
      /\ ~IsSpent(loc.coin)
      /\ ~loc.indexSlow.nil /\ Tx(loc.hash) \in loc.indexSlow.txs
      /\ hist.readOk )
    => loc.result = Result("found", Tx(loc.hash), BlockHash(loc.indexSlow))

\* C4 (as claimed): a found result carries a transaction with the hash
\* asked for, and when the block at the coin's recorded height does not
\* contain the hash the outcome is not-found.
C4_NoMismatchedResult ==
    LocReturned =>
        /\ loc.result.kind = "found" => TxHash(loc.result.tx) = loc.hash
        /\ (~loc.indexSlow.nil /\ Tx(loc.hash) \notin loc.indexSlow.txs)
              => loc.result.kind = "notfound"

\* C5 (as claimed): hash not pooled, index enabled and resolving the hash
\* to a block: the call returns the transaction with that block's hash.
C5_IndexLookup ==
    (LocReturned /\ hist.pooled = {} /\ GTxIndex /\ ~hist.indexHit.nil)
    => loc.result = Result("found", Tx(loc.hash), BlockHash(hist.indexHit))

\* C6: slow-path exhaustion.  Hash not pooled, index disabled, slow path
\* allowed and no output below the ceiling unspent at any lookup of the
\* probe: the call
\* returns not-found with no transaction and no block hash, and
\* getrawtransaction answers with the InvalidAddressOrKey error.
C6_SlowPathExhaustion ==
    ( /\ LocReturned /\ hist.pooled = {} /\ ~GTxIndex /\ loc.allowSlow
      /\ ~hist.below )
    => /\ loc.result = Result("notfound", NilTx, NilHash)
       /\ loc.pc = "done" =>
             /\ loc.reply.kind = "error"
             /\ loc.reply.code = "ErrRPCInvalidAddressOrKey"

\* C6 witness: a confirmed transaction every output of which is spent, and
\* getrawtransaction has answered.
C6_Witness ==
    /\ loc.pc = "done" /\ hist.pooled = {} /\ ~GTxIndex /\ loc.allowSlow
    /\ ~hist.below /\ ~hist.beyond
    /\ loc.hash \in ChainTxs(chain)
    /\ \E o \in DOMAIN view : o.Hash = loc.hash /\ ~view[o].nil
    /\ \A o \in DOMAIN view : o.Hash = loc.hash => IsSpent(view[o])

(***************************************************************************)
(* handleCreateRawTransaction (rawtransaction.go lines 243-306).           *)
(***************************************************************************)
\* wire.MaxTxInSequenceNum and math.MaxUint32 (0xffffffff), at the model's
\* width.
MaxTxInSequenceNum == 2 ^ UintBits - 1
MaxUint32          == 2 ^ UintBits - 1

\* Integers beyond the native width of the checker: a natural number is the
\* sequence of its base-2^16 digits, least significant first, without
\* leading zero digits.
LimbBits == 16
Base     == 2 ^ LimbBits

RECURSIVE Trim(_)
Trim(a) ==
    IF Len(a) > 0 /\ a[Len(a)] = 0 THEN Trim(SubSeq(a, 1, Len(a) - 1)) ELSE a

RECURSIVE Limbs(_)
Limbs(n) == IF n = 0 THEN << >> ELSE <<n % Base>> \o Limbs(n \div Base)

Digit(a, i) == IF i >= 1 /\ i <= Len(a) THEN a[i] ELSE 0

\* a * c + carry, for c below 2^15.
RECURSIVE MulSmall(_, _, _)
MulSmall(a, c, carry) ==
    IF Len(a) = 0 THEN Limbs(carry)
    ELSE LET t == Head(a) * c + carry
         IN  <<t % Base>> \o MulSmall(Tail(a), c, t \div Base)

RECURSIVE BitLenSmall(_)
BitLenSmall(x) == IF x = 0 THEN 0 ELSE 1 + BitLenSmall(x \div 2)

\* The number of significant bits of a.
BitLen(a) ==
    IF Len(a) = 0 THEN 0
    ELSE (Len(a) - 1) * LimbBits + BitLenSmall(a[Len(a)])

\* Bit i of a (bit 0 is the least significant), and whether a bit below
\* bit i is set.
Bit(a, i) == (Digit(a, i \div LimbBits + 1) \div 2 ^ (i % LimbBits)) % 2

AnyBitBelow(a, i) ==
    \/ \E k \in 1..(i \div LimbBits) : Digit(a, k) # 0
    \/ Digit(a, i \div LimbBits + 1) % 2 ^ (i % LimbBits) # 0

\* a \div 2^s and a * 2^s.
ShiftRight(a, s) ==
    LET q == s \div LimbBits
        r == s % LimbBits
    IN  IF Len(a) <= q THEN << >>
        ELSE Trim([i \in 1..(Len(a) - q) |->
                     Digit(a, i + q) \div 2 ^ r
                     + (Digit(a, i + q + 1) % 2 ^ r) * 2 ^ (LimbBits - r)])

ShiftLeft(a, s) ==
    LET q == s \div LimbBits
        r == s % LimbBits
    IN  IF Len(a) = 0 THEN << >>
        ELSE Trim([i \in 1..(Len(a) + q + 1) |->
                     IF i <= q THEN 0
                     ELSE (Digit(a, i - q) % 2 ^ (LimbBits - r)) * 2 ^ r
                          + Digit(a, i - q - 1) \div 2 ^ (LimbBits - r)])

\* a + 1
RECURSIVE Inc(_)
Inc(a) ==
    IF Len(a) = 0 THEN <<1>>
    ELSE IF Head(a) + 1 < Base THEN <<Head(a) + 1>> \o Tail(a)
    ELSE <<0>> \o Inc(Tail(a))

\* a <= b
RECURSIVE LessEqFrom(_, _, _)
LessEqFrom(a, b, i) ==
    IF i = 0 THEN TRUE
    ELSE IF a[i] # b[i] THEN a[i] < b[i]
    ELSE LessEqFrom(a, b, i - 1)

LessEq(a, b) ==
    IF Len(a) # Len(b) THEN Len(a) < Len(b) ELSE LessEqFrom(a, b, Len(a))

\* A float64 (the type of the values of c.Amounts): sign, and the value
\* m * 2^e with m below 2^53.  Finite values in the normal range only.
Binary64(neg, m, e) == [neg |-> neg, m |-> m, e |-> e]

\* The float64 nearest to m * 2^e: round to nearest, ties to even.
RoundBinary64(neg, m, e) ==
    LET s == BitLen(m) - 53
    IN  IF s <= 0 THEN Binary64(neg, m, e)
        ELSE LET q  == ShiftRight(m, s)
                 up == /\ Bit(m, s - 1) = 1
                       /\ (AnyBitBelow(m, s - 1) \/ Bit(q, 0) = 1)
             IN  Binary64(neg, IF up THEN Inc(q) ELSE q, e + s)

\* cost * 1e8 in float64 arithmetic: the exact product, rounded once
\* (1e8 = 625 * 625 * 2^8).
MulBy1e8(x) ==
    RoundBinary64(x.neg, MulSmall(MulSmall(x.m, 625, 0), 625, 0), x.e + 8)

\* An int64: sign and magnitude.
Int64(neg, mag) == [neg |-> neg /\ Len(mag) > 0, mag |-> mag]

\* int64(x): the fraction is dropped (truncation toward zero); for values
\* within the range of int64.
ToInt64(x) ==
    Int64(x.neg, IF x.e >= 0 THEN ShiftLeft(x.m, x.e)
                 ELSE ShiftRight(x.m, -x.e))

\* outValue := int64(cost * 1e8) (line 291).
OutValue(cost) == ToInt64(MulBy1e8(cost))

\* The upper bound of the money range, in smallest units: 21000000 coins
\* of 1e8 units.
MaxMoney == MulSmall(MulSmall(Limbs(21000000), 10000, 0), 10000, 0)

\* amount.MoneyRange(value)
MoneyRange(value) == ~value.neg /\ LessEq(value.mag, MaxMoney)

\* bitaddr.AddressFromString(address): fails on an undecodable string.
Addresses == {"addrA", "addrB", "bad"}
AddressFromString(address) == [ok |-> address # "bad", addr |-> address]

\* The nil *tx.Tx of line 246, and a transaction under construction.
NilTransaction == [nil |-> TRUE, lockTime |-> 0, ins |-> << >>, outs |-> << >>]

\* tx.NewTx(lockTime, 0)
NewTx(lockTime) ==
    [nil |-> FALSE, lockTime |-> lockTime, ins |-> << >>, outs |-> << >>]

RPCError(code) == [kind |-> "error", code |-> code, tx |-> NilTransaction]
Panic          == [kind |-> "panic", code |-> "", tx |-> NilTransaction]
NoResult       == [kind |-> "none", code |-> "", tx |-> NilTransaction]
HexResult(t)   == [kind |-> "hex", code |-> "", tx |-> t]

\* The requests of the model.
NoLockTime == [given |-> FALSE, value |-> 0]
LockTimes ==
    {NoLockTime} \cup
    {[given |-> TRUE, value |-> v] :
        v \in {-1, 0, 1, MaxTxInSequenceNum, MaxTxInSequenceNum + 1}}

\* input.Txid either parses as a hash or does not; input.Vout is a uint32.
TxInputs ==
    {[txidOk |-> TRUE, vout |-> 0], [txidOk |-> TRUE, vout |-> 1],
     [txidOk |-> FALSE, vout |-> 0], [txidOk |-> TRUE, vout |-> MaxUint32]}

\* The amounts of the model, as the float64 values the handler receives:
\*   21000000.0          (the upper bound of the money range),
\*   21000000.00000001   (0x1.406f400000003p+24, one unit above it),
\*   -0.00000001         (-0x1.5798ee2308c3ap-27, minus one unit),
\*   -0.000000005        (-0x1.5798ee2308c3ap-28, minus half a unit),
\*   0.00000003          (0x1.01b2b29a4692bp-25, three units).
Costs ==
    {Binary64(FALSE, Limbs(21000000), 0),
     Binary64(FALSE, <<3, 0, 1780, 20>>, -28),
     Binary64(TRUE, <<17949, 28952, 48327, 10>>, -78),
     Binary64(TRUE, <<17949, 28952, 48327, 10>>, -79),
     Binary64(FALSE, <<26923, 10660, 6955, 16>>, -77)}

SeqsUpTo(S, n) == UNION {[1..k -> S] : k \in 0..n}

\* Lines 244-256: the lock time is validated.  The assignment of line 255
\* follows the return of line 250 inside the same block and never runs:
\* transaction keeps the nil of line 246.
CreateLockTime ==
    /\ cr.pc = "locktime"
    /\ LET lt == cr.req.lockTime
       IN  IF lt.given /\ (lt.value < 0 \/ lt.value > MaxTxInSequenceNum)
           THEN cr' = [cr EXCEPT !.pc = "done",
                          !.result = RPCError("ErrRPCInvalidParameter")]
           ELSE cr' = [cr EXCEPT !.pc = "inputs",
                          !.transaction = NilTransaction]
    /\ UNCHANGED <<view, acc, envVars, locVars, snd, asm>>

\* Lines 258-279, one input per step.  transaction.GetLockTime() and
\* transaction.AddTxIn(in) dereference transaction.
CreateInput ==
    /\ cr.pc = "inputs"
    /\ IF cr.i > Len(cr.req.inputs)
       THEN cr' = [cr EXCEPT !.pc = "outputs"]
       ELSE LET input == cr.req.inputs[cr.i]
                t     == cr.transaction
                sequence == IF ~t.nil /\ t.lockTime # 0
                            THEN MaxUint32 - 1 ELSE MaxUint32
            IN  IF ~input.txidOk
                THEN cr' = [cr EXCEPT !.pc = "done",
                               !.result = RPCError("ErrRPCDecodeHexString")]
                ELSE IF input.vout < 0
                THEN cr' = [cr EXCEPT !.pc = "done",
                               !.result = RPCError("ErrInvalidParameter")]
                ELSE IF t.nil
                THEN cr' = [cr EXCEPT !.pc = "done", !.result = Panic]
                ELSE cr' = [cr EXCEPT !.i = @ + 1,
                               !.transaction.ins =
                                  Append(@, [vout |-> input.vout,
                                             sequence |-> sequence])]
    /\ UNCHANGED <<view, acc, envVars, locVars, snd, asm>>

\* Lines 281-300, one destination per step, in the order the map yields
\* them.  transaction.AddTxOut(out) dereferences transaction.
CreateOutput ==
    /\ cr.pc = "outputs"
    /\ IF cr.rest = {}
       THEN cr' = [cr EXCEPT !.pc = "serialize"]
       ELSE \E address \in cr.rest :
              LET cost     == cr.req.amounts[address]
                  decoded  == AddressFromString(address)
                  outValue == OutValue(cost)
              IN  IF ~decoded.ok
                  THEN cr' = [cr EXCEPT !.pc = "done",
                                 !.result = RPCError("ErrRPCInvalidAddressOrKey")]
                  ELSE IF ~MoneyRange(outValue)
                  THEN cr' = [cr EXCEPT !.pc = "done",
                                 !.result = RPCError("ErrInvalidParameter")]
                  ELSE IF cr.transaction.nil
                  THEN cr' = [cr EXCEPT !.pc = "done", !.result = Panic]
                  ELSE cr' = [cr EXCEPT !.rest = @ \ {address},
                                 !.transaction.outs =
                                    Append(@, [value |-> outValue,
                                               addr |-> decoded.addr])]
    /\ UNCHANGED <<view, acc, envVars, locVars, snd, asm>>

\* Lines 302-305: transaction.Serialize(buf) and the hex of the bytes.
CreateSerialize ==
    /\ cr.pc = "serialize"
    /\ IF cr.transaction.nil
       THEN cr' = [cr EXCEPT !.pc = "done", !.result = Panic]
       ELSE cr' = [cr EXCEPT !.pc = "done",
                      !.result = HexResult(cr.transaction)]
    /\ UNCHANGED <<view, acc, envVars, locVars, snd, asm>>

InitCreate ==
    /\ view = [o \in OutPoints |-> NilCoin]
    /\ acc = AccIdle
    /\ EnvIdle
    /\ loc = LocIdle /\ hist = HistIdle
    /\ snd = SndIdle /\ asm = AsmIdle
    /\ \E lt \in LockTimes, ins \in SeqsUpTo(TxInputs, MaxInputs),
          dests \in SUBSET Addresses :
         \E amounts \in [dests -> Costs] :
            cr = [pc |-> "locktime",
                  req |-> [lockTime |-> lt, inputs |-> ins,
                           amounts |-> amounts],
                  transaction |-> NilTransaction, i |-> 1, rest |-> dests,
                  result |-> NoResult]

NextCreate == CreateLockTime \/ CreateInput \/ CreateOutput \/ CreateSerialize

SpecCreate == InitCreate /\ [][NextCreate]_vars

(***************************************************************************)
(* Properties of handleCreateRawTransaction (under SpecCreate).            *)
(***************************************************************************)
\* The request passes every validation of the handler.
ValidRequest(req) ==
    /\ req.lockTime.given =>
          (req.lockTime.value >= 0 /\ req.lockTime.value <= MaxTxInSequenceNum)
    /\ \A k \in 1..Len(req.inputs) :
          req.inputs[k].txidOk /\ req.inputs[k].vout >= 0
    /\ \A a \in DOMAIN req.amounts :
          AddressFromString(a).ok /\ MoneyRange(OutValue(req.amounts[a]))

\* C7 (as claimed): a request that passes validation produces a transaction
\* with the supplied lock time (zero when absent), every input carrying the
\* maximum sequence when the lock time is zero and maximum-minus-one
\* otherwise.
C7_SequenceConvention ==
    (cr.pc = "done" /\ ValidRequest(cr.req)) =>
        LET lockTime == IF cr.req.lockTime.given
                        THEN cr.req.lockTime.value ELSE 0
            t == cr.result.tx
        IN  /\ cr.result.kind = "hex"
            /\ t.lockTime = lockTime
            /\ Len(t.ins) = Len(cr.req.inputs)
            /\ \A k \in 1..Len(t.ins) :
                  t.ins[k].sequence =
                     IF lockTime = 0 THEN MaxUint32 ELSE MaxUint32 - 1

\* C8 (as claimed): an amount exactly at the upper bound of the money range
\* is accepted and is an output of the returned transaction; an amount one
\* unit above the bound, or a negative one, is rejected with
\* InvalidParameter and no transaction is returned.
C8_MoneyRangeBoundary ==
    cr.pc = "done" =>
        /\ ( /\ ValidRequest(cr.req)
             /\ \E a \in DOMAIN cr.req.amounts :
                   OutValue(cr.req.amounts[a]) = Int64(FALSE, MaxMoney) )
           => /\ cr.result.kind = "hex"
              /\ \E k \in 1..Len(cr.result.tx.outs) :
                    cr.result.tx.outs[k].value = Int64(FALSE, MaxMoney)
        /\ ( /\ ValidRequest([cr.req EXCEPT !.amounts = << >>])
             /\ \A a \in DOMAIN cr.req.amounts : AddressFromString(a).ok
             /\ \E a \in DOMAIN cr.req.amounts :
                   \/ OutValue(cr.req.amounts[a]) = Int64(FALSE, Inc(MaxMoney))
                   \/ (cr.req.amounts[a].neg /\ Len(cr.req.amounts[a].m) > 0) )
           => /\ cr.result.kind = "error"
              /\ cr.result.code \in {"ErrInvalidParameter",
                                     "ErrRPCInvalidParameter"}
              /\ cr.result.tx.nil

(***************************************************************************)
(* handleSendRawTransaction (rawtransaction.go lines 389-422).             *)
(***************************************************************************)
\* maxTxFee of line 401.
MaxTxFee == 10000

\* transaction.Unserialize(buf): the bytes either decode to a transaction
\* or fail to decode.
RawTxs ==
    {[ok |-> FALSE, tx |-> [nil |-> FALSE, hash |-> 0, nOuts |-> 0]]} \cup
    {[ok |-> TRUE, tx |-> [nil |-> FALSE, hash |-> h, nOuts |-> n]] :
        h \in Hashes, n \in 0..MaxOuts}

Unserialize(raw) == [err |-> ~raw.ok, tx |-> raw.tx]

\* c.AllowHighFees: absent, or a boolean.
HighFeeFlags == {[given |-> FALSE, value |-> FALSE],
                 [given |-> TRUE, value |-> FALSE],
                 [given |-> TRUE, value |-> TRUE]}

\* Lines 408-412: the outputs of the transaction are looked up in the coin
\* view until one is found unspent.  The result holds haveChain and the
\* lookups made.
RECURSIVE HaveChainLoop(_, _, _, _, _, _)
HaveChainLoop(v, hash, i, nOuts, haveChain, calls) ==
    IF ~haveChain /\ i < nOuts
    THEN LET existingCoin == GetCoin(v, OutPoint(hash, i))
         IN  HaveChainLoop(v, hash, i + 1, nOuts, ~IsSpent(existingCoin),
                           Append(calls, <<"GetCoin", i>>))
    ELSE [haveChain |-> haveChain, calls |-> calls]

SendReply(kind, code, hash) == [kind |-> kind, code |-> code, hash |-> hash]

\* The handler after a successful decode (lines 399-421).
SendDecoded(c, transaction, v, p) ==
    LET hash        == TxHash(transaction)
        maxRawTxFee == IF c.AllowHighFees.given /\ c.AllowHighFees.value
                       THEN 0 ELSE MaxTxFee
        chainLoop   == HaveChainLoop(v, hash, 0, transaction.nOuts, FALSE,
                                     << >>)
        entry       == FindTx(p, hash)
    IN  [reply |-> SendReply("hash", "", hash),
         maxRawTxFee |-> maxRawTxFee,
         haveChain |-> chainLoop.haveChain,
         calls |-> chainLoop.calls \o <<"FindTx">>
                      \o (IF ~entry.nil THEN <<"ProcessForRpc">> ELSE << >>)]

\* Mutant: the error of Unserialize is not checked.
handleSendRawTransactionUnchecked(c, v, p) ==
    SendDecoded(c, Unserialize(c.HexTx).tx, v, p)

\* Lines 389-422: the reply and the collaborator calls made on the way.
handleSendRawTransaction(c, v, p) ==
    LET decoded == Unserialize(c.HexTx)
    IN  IF decoded.err
        THEN [reply |-> SendReply("error", "ErrRPCDecodeHexString", 0),
              maxRawTxFee |-> 0, haveChain |-> FALSE, calls |-> << >>]
        ELSE SendDecoded(c, decoded.tx, v, p)

SendRawTransaction ==
    /\ snd.pc = "call"
    /\ LET r == handleSendRawTransaction(snd.req, view, pool)
       IN  snd' = [snd EXCEPT !.pc = "done", !.reply = r.reply,
                       !.calls = r.calls, !.haveChain = r.haveChain,
                       !.maxRawTxFee = r.maxRawTxFee]
    /\ UNCHANGED <<view, acc, envVars, locVars, cr, asm>>

InitSend ==
    /\ \E c0 \in CoinStates(0), c2 \in CoinStates(2) :
         view = [o \in OutPoints |->
                   IF o.Hash = 1 /\ o.Index = 0 THEN c0
                   ELSE IF o.Hash = 1 /\ o.Index = 2 THEN c2
                   ELSE NilCoin]
    /\ acc = AccIdle
    /\ pool \in SUBSET {Tx(h) : h \in Hashes}
    /\ chain = << >> /\ undo = << >> /\ GTxIndex = FALSE
    /\ loc = LocIdle /\ hist = HistIdle
    /\ cr = CrIdle /\ asm = AsmIdle
    /\ \E raw \in RawTxs, fees \in HighFeeFlags :
         snd = [pc |-> "call",
                req |-> [HexTx |-> raw, AllowHighFees |-> fees],
                view0 |-> view, pool0 |-> pool,
                reply |-> SendReply("none", "", 0), calls |-> << >>,
                haveChain |-> FALSE, maxRawTxFee |-> 0]

SpecSend == InitSend /\ [][SendRawTransaction]_vars

(***************************************************************************)
(* Properties of handleSendRawTransaction (under SpecSend).                *)
(***************************************************************************)
\* C9: when the bytes fail wire decoding the call returns the decode error
\* and no transaction hash, having made no coin-view lookup, no pool lookup
\* and no call to the relay processor; pool and coin view are unchanged.
C9_DecodeFailure ==
    (snd.pc = "done" /\ ~snd.req.HexTx.ok) =>
        /\ snd.reply = SendReply("error", "ErrRPCDecodeHexString", 0)
        /\ snd.calls = << >>
        /\ view = snd.view0 /\ pool = snd.pool0

\* C9 witness: a failed decode answered while the pool holds transactions
\* and the coin view holds an unspent coin.
C9_Witness ==
    /\ snd.pc = "done" /\ ~snd.req.HexTx.ok
    /\ snd.reply.kind = "error"
    /\ pool # {} /\ UnspentIn(view) # {}

(***************************************************************************)
(* ScriptToAsmStr (rawtransaction.go lines 130-187).                       *)
(***************************************************************************)
\* Opcodes (package opcodes).
OP_PUSHDATA1 == 76
OP_PUSHDATA2 == 77
OP_PUSHDATA4 == 78
OP_RETURN    == 106

\* The script bytes of the model: direct pushes of 1 and 5 bytes,
\* OP_PUSHDATA1, OP_RETURN, OP_DUP (118) and 0x81 (a negative number when
\* pushed, OP_AND as an opcode).
ScriptBytes == {1, 5, OP_PUSHDATA1, OP_RETURN, 118, 129}

Scripts == SeqsUpTo(ScriptBytes, MaxScriptLen)

\* b[i] of the Go slice (indices from 0).
At(b, i) == b[i + 1]

\* s.GetOp(&i, &opcode, &vch): decodes the operation that starts at index
\* i: the opcode and, for a push, its data; next is the index after the
\* operation, which GetOp stores back through &i.  It fails when i is out
\* of range or the push is truncated.
OpFail == [ok |-> FALSE, opcode |-> 255, data |-> << >>, next |-> 0]

GetOp(b, i) ==
    IF i >= Len(b) THEN OpFail
    ELSE LET opcode == At(b, i)
             at     == i + 1
             left   == Len(b) - at
         IN  IF opcode > OP_PUSHDATA4
             THEN [ok |-> TRUE, opcode |-> opcode, data |-> << >>,
                   next |-> at]
             ELSE LET lenBytes == CASE opcode < OP_PUSHDATA1 -> 0
                                    [] opcode = OP_PUSHDATA1 -> 1
                                    [] opcode = OP_PUSHDATA2 -> 2
                                    [] OTHER -> 4
                  IN  IF left < lenBytes THEN OpFail
                      ELSE LET nSize ==
                                 CASE opcode < OP_PUSHDATA1 -> opcode
                                   [] opcode = OP_PUSHDATA1 -> At(b, at)
                                   [] opcode = OP_PUSHDATA2 ->
                                        At(b, at) + 256 * At(b, at + 1)
                                   [] OTHER ->
                                        At(b, at) + 256 * At(b, at + 1)
                                        + 65536 * At(b, at + 2)
                                        + 16777216 * At(b, at + 3)
                               start == at + lenBytes
                           IN  IF Len(b) - start < nSize THEN OpFail
                               ELSE [ok |-> TRUE, opcode |-> opcode,
                                     data |-> SubSeq(b, start + 1,
                                                     start + nSize),
                                     next |-> start + nSize]

\* script.GetCScriptNum(vch, false, DefaultMaxNumSize).Value for at most
\* four bytes: little-endian magnitude, sign in the top bit of the last
\* byte.
RECURSIVE Magnitude(_, _)
Magnitude(vch, k) ==
    IF k > Len(vch) THEN 0
    ELSE (IF k = Len(vch) THEN vch[k] % 128 ELSE vch[k])
         + 256 * Magnitude(vch, k + 1)

GetCScriptNum(vch) ==
    IF Len(vch) = 0 THEN 0
    ELSE IF vch[Len(vch)] >= 128 THEN -Magnitude(vch, 1)
    ELSE Magnitude(vch, 1)

\* hex.EncodeToString(vch)
HexDigits == <<"0", "1", "2", "3", "4", "5", "6", "7",
               "8", "9", "a", "b", "c", "d", "e", "f">>

RECURSIVE EncodeToString(_)
EncodeToString(vch) ==
    IF Len(vch) = 0 THEN ""
    ELSE HexDigits[(Head(vch) \div 16) + 1] \o HexDigits[(Head(vch) % 16) + 1]
         \o EncodeToString(Tail(vch))

\* s.IsUnspendable(): the script starts with OP_RETURN.
IsUnspendable(b) == Len(b) > 0 /\ b[1] = OP_RETURN

\* opcodes.GetOpName(int(opcode))
GetOpName(opcode) ==
    CASE opcode = OP_RETURN -> "OP_RETURN"
      [] opcode = 118 -> "OP_DUP"
      [] opcode = 129 -> "OP_AND"
      [] OTHER -> "OP_UNKNOWN"

\* The token of a decoded operation (lines 145-184).  The sighash decode
\* of lines 167-175 is commented out: strSigHashDecode stays empty and both
\* branches render the data as hex.
AsmToken(b, op, attemptSighashDecode) ==
    IF op.opcode >= 0 /\ op.opcode <= OP_PUSHDATA4
    THEN IF Len(op.data) <= 4
         THEN ToString(GetCScriptNum(op.data))
         ELSE IF attemptSighashDecode /\ ~IsUnspendable(b)
              THEN EncodeToString(op.data) \o ""
              ELSE EncodeToString(op.data)
    ELSE GetOpName(op.opcode)

\* The loop of lines 135-185 entered with index i and the string str built
\* so far; str is the sequence of the pieces appended to it (a token or a
\* single space).  GetOp has moved i past the operation when the loop's
\* i++ runs.
RECURSIVE AsmLoop(_, _, _, _)
AsmLoop(b, attemptSighashDecode, i, str) ==
    IF i < Len(b)
    THEN LET sep == IF Len(str) # 0 THEN Append(str, " ") ELSE str
             op  == GetOp(b, i)
         IN  IF ~op.ok
             THEN Append(sep, "[error]")
             ELSE AsmLoop(b, attemptSighashDecode, op.next + 1,
                          Append(sep, AsmToken(b, op, attemptSighashDecode)))
    ELSE str

ScriptToAsmStr(b, attemptSighashDecode) ==
    AsmLoop(b, attemptSighashDecode, 0, << >>)

Disassemble ==
    /\ asm.pc = "call"
    /\ asm' = [asm EXCEPT !.pc = "done",
                  !.str = ScriptToAsmStr(asm.script, asm.attemptSighashDecode)]
    /\ UNCHANGED <<view, acc, envVars, locVars, cr, snd>>

InitAsm ==
    /\ view = [o \in OutPoints |-> NilCoin]
    /\ acc = AccIdle
    /\ EnvIdle
    /\ loc = LocIdle /\ hist = HistIdle
    /\ cr = CrIdle /\ snd = SndIdle
    /\ \E b \in Scripts, flag \in BOOLEAN :
         asm = [pc |-> "call", script |-> b, attemptSighashDecode |-> flag,
                str |-> << >>]

SpecAsm == InitAsm /\ [][Disassemble]_vars

(***************************************************************************)
(* Properties of ScriptToAsmStr (under SpecAsm).                           *)
(***************************************************************************)
\* The operations of a script, decoded one after the other from index i:
\* those decoded, and whether the whole script decoded.
RECURSIVE DecodeOps(_, _, _)
DecodeOps(b, i, ops) ==
    IF i >= Len(b) THEN [ok |-> TRUE, ops |-> ops]
    ELSE LET op == GetOp(b, i)
         IN  IF ~op.ok THEN [ok |-> FALSE, ops |-> ops]
             ELSE DecodeOps(b, op.next, Append(ops, op))

\* The tokens of a string: its pieces other than the separator.
TokensOf(str) == SelectSeq(str, LAMBDA piece : piece # " ")

\* Tokens and single spaces alternate, with a token first and last.
WellSeparated(str) ==
    /\ Len(str) = 0 \/ Len(str) % 2 = 1
    /\ \A k \in 1..Len(str) : (str[k] = " ") <=> (k % 2 = 0)

\* C10 (as claimed): the disassembler returns a string for every script and
\* flag; a failed decode puts [error] last, after the tokens of the
\* operations decoded before it; a script that decodes fully yields exactly
\* one token per operation; tokens are separated by exactly one space, with
\* no leading or trailing space.
C10_DisassemblerTokens ==
    asm.pc = "done" =>
        LET ref  == DecodeOps(asm.script, 0, << >>)
            toks == TokensOf(asm.str)
        IN  /\ WellSeparated(asm.str)
            /\ ref.ok => /\ Len(toks) = Len(ref.ops)
                         /\ \A k \in 1..Len(toks) : toks[k] # "[error]"
            /\ ~ref.ok => /\ Len(toks) = Len(ref.ops) + 1
                          /\ toks[Len(toks)] = "[error]"
=============================================================================
